---- MODULE Spec2Model ----
(***************************************************************************)
(* A model of the gpt3_rs client binding: the model registry               *)
(* (src/model.rs), the classification payload with its derived builder and *)
(* serializer (src/api/classifications.rs) and the dispatch of             *)
(* classification and file-content requests through one shared client      *)
(* (src/api/files/content.rs).                                             *)
(*                                                                         *)
(* Three specifications share the module's variables; each one moves its   *)
(* own group of variables and leaves the others at their initial values:   *)
(*   SpecUrl      Model::url applied to every model and bounded action     *)
(*   SpecBuilder  setters, build and the serialization of the payload      *)
(*   SpecDispatch concurrent dispatches through one client                 *)
(***************************************************************************)
EXTENDS Integers, Sequences, FiniteSets, TLC

VARIABLES
    m_self,      \* model registry: the Model the url is asked of
    m_action,    \* model registry: the action segment
    m_url,       \* model registry: None, or Some(the resolved URL)
    builder,     \* classifications::Builder: field -> Option of the field's type
    outcome,     \* None, or Some(the Result of the last build())
    builds,      \* build() calls since the last setter call
    body,        \* None, or Some(the JSON object last put on the wire)
    sent,        \* transport calls issued with the current outcome
    client,      \* the Client: its credential and its transport handle
    call,        \* one record per dispatch through the client
    wire         \* the requests handed to the transport, in order

urlVars == <<m_self, m_action, m_url>>
builderVars == <<builder, outcome, builds, body, sent>>
dispatchVars == <<client, call, wire>>
vars == <<m_self, m_action, m_url, builder, outcome, builds, body, sent,
          client, call, wire>>

-----------------------------------------------------------------------------
(* Rust's Option<T>: None is the empty tuple, Some(x) the one-element tuple. *)
None == << >>
Some(x) == << x >>

(* Strings.  TLC evaluates Len, \o and SubSeq on strings. *)
IsPrefix(p, s) == Len(p) <= Len(s) /\ SubSeq(s, 1, Len(p)) = p
IsSuffix(p, s) == Len(p) <= Len(s) /\ SubSeq(s, Len(s) - Len(p) + 1, Len(s)) = p
Drop(s, n) == SubSeq(s, n + 1, Len(s))

-----------------------------------------------------------------------------
(* src/main.rs and src/model.rs: the base URL and the model registry. *)

OPENAI_URL == "https://api.openai.com/v1"

Models == {"Ada", "Babbage", "Curie", "Davinci"}

(* A plausible slip: the Davinci arm copied from the Curie arm. *)
Model_url_DavinciAsCurie(self, action) ==
    (CASE self = "Ada" -> OPENAI_URL \o "/engines/text-ada-001/"
       [] self = "Babbage" -> OPENAI_URL \o "/engines/text-babbage-001"
       [] self = "Curie" -> OPENAI_URL \o "/engines/text-curie-001"
       [] self = "Davinci" -> OPENAI_URL \o "/engines/text-curie-001") \o action

Model_url(self, action) ==
    (CASE self = "Ada" -> OPENAI_URL \o "/engines/text-ada-001/"
       [] self = "Babbage" -> OPENAI_URL \o "/engines/text-babbage-001"
       [] self = "Curie" -> OPENAI_URL \o "/engines/text-curie-001"
       [] self = "Davinci" -> OPENAI_URL \o "/engines/text-davinci-002") \o action

(* The action segments Model::url is applied to: every string of at most *)
(* MaxActionLen characters over ActionChars.                             *)
MaxActionLen == 3
ActionChars == {"/", "c"}

RECURSIVE StringsOfLen(_)
StringsOfLen(n) ==
    IF n = 0 THEN {""}
    ELSE {s \o c : s \in StringsOfLen(n - 1), c \in ActionChars}

Actions == UNION {StringsOfLen(n) : n \in 0..MaxActionLen}

UrlInit ==
    /\ m_self \in Models
    /\ m_action \in Actions
    /\ m_url = None

(* let url = model.url(action); *)
Resolve ==
    /\ m_url = None
    /\ m_url' = Some(Model_url(m_self, m_action))
    /\ UNCHANGED <<m_self, m_action>>

-----------------------------------------------------------------------------
(* src/api/classifications.rs: the payload, its derived Builder and its     *)
(* derived Serialize.                                                       *)

(* The fields of Request in declaration order. *)
FieldOrder ==
    <<"model", "query", "examples", "file", "labels", "search_model",
      "temperature", "logprobs", "max_examples", "logit_bias",
      "return_prompt", "return_metadata", "expand", "user">>

Fields == {FieldOrder[i] : i \in 1..Len(FieldOrder)}

(* The fields without #[builder(default)]: build() insists on them. *)
RequiredFields == {"model", "query"}

(* The Option<_> fields, each #[builder(default, setter(strip_option))]. *)
OptionalFields ==
    {"examples", "file", "labels", "search_model", "temperature", "logprobs",
     "max_examples", "logit_bias", "return_prompt", "return_metadata",
     "expand", "user"}

(* The fields carrying #[serde(skip_serializing_if = "Option::is_none")]. *)
SkipSerializingIfNone_UserForgotten ==
    {"examples", "file", "labels", "search_model", "temperature", "logprobs",
     "max_examples", "logit_bias", "return_prompt", "return_metadata",
     "expand"}

SkipSerializingIfNone ==
    {"examples", "file", "labels", "search_model", "temperature", "logprobs",
     "max_examples", "logit_bias", "return_prompt", "return_metadata",
     "expand", "user"}

(* The values the setters are called with, by field. *)
FieldValues(f) ==
    CASE f = "model" -> {"Ada", "Curie"}
      [] f = "query" -> {"It is a rainy day :("}
      [] f = "examples" -> {<< <<"A happy moment", "Positive">>,
                               <<"I am sad.", "Negative">> >>}
      [] f = "file" -> {"file-1"}
      [] f = "labels" -> {<<"Positive", "Negative">>}
      [] f = "search_model" -> {"Ada"}
      [] f = "temperature" -> {0}
      [] f = "logprobs" -> {5}
      [] f = "max_examples" -> {200}
      [] f = "logit_bias" -> {<< <<"50256", -100>> >>}
      [] f = "return_prompt" -> {TRUE}
      [] f = "return_metadata" -> {FALSE}
      [] f = "expand" -> {<<"completion">>}
      [] f = "user" -> {"user-1"}

(* Builder::default(): no field set. *)
Builder_default == [f \in Fields |-> None]

(* derive_builder's errors and Result. *)
UninitializedField(f) == [kind |-> "UninitializedField", field |-> f]
ValidationError(msg) == [kind |-> "ValidationError", message |-> msg]
Ok(v) == [ok |-> TRUE, value |-> v]
Err(e) == [ok |-> FALSE, error |-> e]

(* The payload build() assembles once the required fields are known to be *)
(* set: a required field is unwrapped, a defaulted field falls back to    *)
(* Default::default(), which for Option<_> is None.                       *)
Builder_payload(b) ==
    [f \in Fields |->
        IF f \in RequiredFields THEN b[f][1]
        ELSE IF b[f] = None THEN None ELSE b[f][1]]

(* A plausible slip: #[builder(default)] put on query as well. *)
Builder_build_QueryDefaulted(b) ==
    IF b["model"] = None THEN Err(UninitializedField("model"))
    ELSE Ok(Builder_payload([b EXCEPT !["query"] =
                IF b["query"] = None THEN Some("") ELSE b["query"]]))

(* A plausible change: build() validating "examples or file, not both". *)
Builder_build_Exclusive(b) ==
    IF b["model"] = None THEN Err(UninitializedField("model"))
    ELSE IF b["query"] = None THEN Err(UninitializedField("query"))
    ELSE IF b["examples"] # None /\ b["file"] # None
         THEN Err(ValidationError("examples and file are both set"))
    ELSE Ok(Builder_payload(b))

(* Builder::build(&self): the fields are checked in declaration order. *)
Builder_build(b) ==
    IF b["model"] = None THEN Err(UninitializedField("model"))
    ELSE IF b["query"] = None THEN Err(UninitializedField("query"))
    ELSE Ok(Builder_payload(b))

(* serde's JSON text of the field values. *)
Quote(s) == "\"" \o s \o "\""

(* Model is #[serde(rename_all = "lowercase")]. *)
Model_json(m) ==
    CASE m = "Ada" -> Quote("ada")
      [] m = "Babbage" -> Quote("babbage")
      [] m = "Curie" -> Quote("curie")
      [] m = "Davinci" -> Quote("davinci")

RECURSIVE JoinComma(_)
JoinComma(texts) ==
    IF Len(texts) = 0 THEN ""
    ELSE IF Len(texts) = 1 THEN texts[1]
    ELSE texts[1] \o "," \o JoinComma(Tail(texts))

StringArray_json(xs) ==
    "[" \o JoinComma([i \in 1..Len(xs) |-> Quote(xs[i])]) \o "]"

Value_json(f, v) ==
    CASE f \in {"model", "search_model"} -> Model_json(v)
      [] f \in {"query", "file", "user"} -> Quote(v)
      [] f \in {"labels", "expand"} -> StringArray_json(v)
      [] f = "examples" ->
            "[" \o JoinComma([i \in 1..Len(v) |-> StringArray_json(v[i])]) \o "]"
      [] f = "temperature" -> ToString(v) \o ".0"
      [] f \in {"logprobs", "max_examples"} -> ToString(v)
      [] f = "logit_bias" ->
            "{" \o JoinComma([i \in 1..Len(v) |->
                       Quote(v[i][1]) \o ":" \o ToString(v[i][2])]) \o "}"
      [] f \in {"return_prompt", "return_metadata"} ->
            IF v THEN "true" ELSE "false"

Field_json(f, v) ==
    IF f \in OptionalFields
    THEN IF v = None THEN "null" ELSE Value_json(f, v[1])
    ELSE Value_json(f, v)

(* A plausible slip: the skip attribute left off the last field. *)
Request_serialize_UserNotSkipped(p) ==
    [k \in {f \in Fields :
              ~(f \in SkipSerializingIfNone_UserForgotten /\ p[f] = None)}
        |-> Field_json(k, p[k])]

(* #[derive(Serialize)] on Request: the JSON object, key -> JSON text. *)
Request_serialize(p) ==
    [k \in {f \in Fields : ~(f \in SkipSerializingIfNone /\ p[f] = None)}
        |-> Field_json(k, p[k])]

(* The builder process: setters, build(), and the dispatch of a built  *)
(* payload.  A setter call starts a new round: the caller lets go of   *)
(* the previous round's Result.                                        *)
MaxBuilds == 2
MaxCalls == 1

BuilderInit ==
    /\ builder = Builder_default
    /\ outcome = None
    /\ builds = 0
    /\ body = None
    /\ sent = 0

(* builder.model(v), builder.query(v): the plain setters. *)
SetRequired(f, v) ==
    /\ builder' = [builder EXCEPT ![f] = Some(v)]
    /\ outcome' = None
    /\ builds' = 0
    /\ body' = None
    /\ sent' = 0

(* The strip_option setters: the value is wrapped in Some. *)
SetOptional(f, v) ==
    /\ builder' = [builder EXCEPT ![f] = Some(Some(v))]
    /\ outcome' = None
    /\ builds' = 0
    /\ body' = None
    /\ sent' = 0

(* A plausible change: an owning build() that takes the fields. *)
Build_Taking ==
    /\ builds < MaxBuilds
    /\ outcome' = Some(Builder_build(builder))
    /\ builds' = builds + 1
    /\ builder' = Builder_default
    /\ UNCHANGED <<body, sent>>

(* let r = builder.build(); *)
Build ==
    /\ builds < MaxBuilds
    /\ outcome' = Some(Builder_build(builder))
    /\ builds' = builds + 1
    /\ UNCHANGED <<builder, body, sent>>

(* client.request(&payload): the payload is serialized and handed to the *)
(* transport.  Only an Ok(payload) gives the caller a payload to pass.   *)
Dispatch ==
    /\ outcome # None
    /\ outcome[1].ok
    /\ sent < MaxCalls
    /\ body' = Some(Request_serialize(outcome[1].value))
    /\ sent' = sent + 1
    /\ UNCHANGED <<builder, outcome, builds>>

-----------------------------------------------------------------------------
(* src/api/files/content.rs and the dispatch of requests through a Client. *)

NumDispatch == 2
Dispatches == 1..NumDispatch

(* The credentials a Client may be constructed with, and its transport. *)
Tokens == {"sk-A", "sk-B"}
ReqwestClient == "reqwest::Client"

FileIds == {"file-1", "file-2"}

(* The classification payloads dispatched: the two required fields only, *)
(* and one with examples and labels.                                     *)
MinimalBuilder ==
    [Builder_default EXCEPT !["model"] = Some("Curie"),
                            !["query"] = Some("It is a rainy day :(")]

ClassificationPayloads ==
    {Builder_build(MinimalBuilder).value,
     Builder_build([MinimalBuilder EXCEPT
        !["examples"] = Some(Some(<< <<"A happy moment", "Positive">> >>)),
        !["labels"] = Some(Some(<<"Positive", "Negative">>))]).value}

(* A reqwest::RequestBuilder: what send() will put on the wire. *)
RequestBuilder(via, method, url) ==
    [via |-> via, method |-> method, url |-> url, bearer |-> None, json |-> None]
bearer_auth(rb, token) == [rb EXCEPT !.bearer = Some(token)]
json(rb, value) == [rb EXCEPT !.json = Some(value)]

(* content::Request::new(file_id) *)
content_Request_new(file_id) == [file_id |-> file_id]

(* A plausible slip: the bearer_auth call left out. *)
content_build_request_NoBearer(self, cl) ==
    RequestBuilder(cl.reqwest_client, "GET",
                   OPENAI_URL \o "/files/" \o self.file_id \o "/content")

(* impl BuildRequest for content::Request *)
content_build_request(self, cl) ==
    bearer_auth(
        RequestBuilder(cl.reqwest_client, "GET",
                       OPENAI_URL \o "/files/" \o self.file_id \o "/content"),
        cl.gpt_token)

(* impl RequestInfo for classifications::Request *)
classifications_url(self) == OPENAI_URL \o "/classifications"

(* The BuildRequest every RequestInfo payload gets: POST to its url, the *)
(* bearer credential, the payload as the JSON body.                      *)
classifications_build_request(self, cl) ==
    json(bearer_auth(RequestBuilder(cl.reqwest_client, "POST",
                                    classifications_url(self)),
                     cl.gpt_token),
         Request_serialize(self))

(* The transport's replies: a failure of the call, or a body. *)
TransportErrors == {"connection refused", "timed out"}

WellFormedBody ==
    "{" \o Quote("completion") \o ":" \o Quote("cmpl-1") \o ","
        \o Quote("label") \o ":" \o Quote("Negative") \o ","
        \o Quote("model") \o ":" \o Quote("curie:2020-05-03") \o ","
        \o Quote("object") \o ":" \o Quote("classification") \o ","
        \o Quote("search_model") \o ":" \o Quote("ada") \o ","
        \o Quote("selected_examples") \o ":[]}"

MalformedBodies == {"", "{", "training data, line 1"}
Bodies == MalformedBodies \cup {WellFormedBody, "{}", Quote("hello")}

Replies ==
    {[ok |-> FALSE, error |-> e] : e \in TransportErrors}
        \cup {[ok |-> TRUE, body |-> b] : b \in Bodies}

(* reqwest's errors as the caller tells them apart. *)
TransportError(e) == [kind |-> "transport", cause |-> e]
DecodeError == [kind |-> "decode"]

(* serde_json::from_str on the bodies above: the JSON value, or an error. *)
serde_json_from_str(text) ==
    CASE text = WellFormedBody ->
            Ok([type |-> "object",
                members |-> [completion |-> "cmpl-1", label |-> "Negative",
                             model |-> "curie:2020-05-03",
                             object |-> "classification",
                             search_model |-> "ada",
                             selected_examples |-> << >>]])
      [] text = "{}" -> Ok([type |-> "object", members |-> << >>])
      [] text = Quote("hello") -> Ok([type |-> "string", value |-> "hello"])
      [] OTHER -> Err("syntax")

(* #[derive(Deserialize)] on classifications::Response: every field is *)
(* required.                                                           *)
ResponseFields ==
    {"completion", "label", "model", "object", "search_model",
     "selected_examples"}

classifications_Response_deserialize(text) ==
    LET parsed == serde_json_from_str(text) IN
    IF ~parsed.ok THEN Err(DecodeError)
    ELSE IF parsed.value.type # "object" THEN Err(DecodeError)
    ELSE IF ~(ResponseFields \subseteq DOMAIN parsed.value.members)
         THEN Err(DecodeError)
    ELSE Ok([f \in ResponseFields |-> parsed.value.members[f]])

(* #[serde(transparent)] on content::Response, were it deserialized from *)
(* JSON: the body has to be one JSON string.                             *)
content_Response_deserialize(text) ==
    LET parsed == serde_json_from_str(text) IN
    IF ~parsed.ok THEN Err(DecodeError)
    ELSE IF parsed.value.type # "string" THEN Err(DecodeError)
    ELSE Ok([content |-> parsed.value.value])

(* Request::request_raw: send, then the body as text. *)
request_raw(reply) ==
    IF reply.ok THEN Ok(reply.body) ELSE Err(TransportError(reply.error))

(* The provided Request::request: send, then the body as JSON. *)
classifications_request(reply) ==
    IF reply.ok THEN classifications_Response_deserialize(reply.body)
    ELSE Err(TransportError(reply.error))

(* A plausible slip: the override dropped, the provided request used. *)
content_request_ViaJson(reply) ==
    IF reply.ok THEN content_Response_deserialize(reply.body)
    ELSE Err(TransportError(reply.error))

(* A plausible slip: the transport error swallowed by unwrap_or_default. *)
content_request_ErrorSwallowed(reply) ==
    LET raw == request_raw(reply) IN
    IF raw.ok THEN Ok([content |-> raw.value]) ELSE Ok([content |-> ""])

(* content::Request::request:                                  *)
(*   Ok(Response { content: self.request_raw(client).await? }) *)
content_request(reply) ==
    LET raw == request_raw(reply) IN
    IF raw.ok THEN Ok([content |-> raw.value]) ELSE Err(raw.error)

IdleCall ==
    [pc |-> "idle", kind |-> "none", payload |-> None, request |-> None,
     reply |-> None, result |-> None]

DispatchInit ==
    /\ client \in {[gpt_token |-> t, reqwest_client |-> ReqwestClient] :
                      t \in Tokens}
    /\ call = [d \in Dispatches |-> IdleCall]
    /\ wire = << >>

(* A plausible change: the credential moved out of the client on use. *)
ContentRequest_TokenTaken(d, file_id) ==
    /\ call[d].pc = "idle"
    /\ LET self == content_Request_new(file_id)
           rb == content_build_request(self, client)
       IN /\ call' = [call EXCEPT ![d] =
                        [pc |-> "awaiting", kind |-> "content",
                         payload |-> Some(self), request |-> Some(rb),
                         reply |-> None, result |-> None]]
          /\ wire' = Append(wire, [by |-> d, request |-> rb])
    /\ client' = [client EXCEPT !.gpt_token = ""]

(* content::Request::request up to the await: the request is built from *)
(* the payload and the client and sent.                                 *)
ContentRequest(d, file_id) ==
    /\ call[d].pc = "idle"
    /\ LET self == content_Request_new(file_id)
           rb == content_build_request(self, client)
       IN /\ call' = [call EXCEPT ![d] =
                        [pc |-> "awaiting", kind |-> "content",
                         payload |-> Some(self), request |-> Some(rb),
                         reply |-> None, result |-> None]]
          /\ wire' = Append(wire, [by |-> d, request |-> rb])
    /\ UNCHANGED client

(* content::Request::request from the await on. *)
ContentResume(d, reply) ==
    /\ call[d].pc = "awaiting"
    /\ call[d].kind = "content"
    /\ call' = [call EXCEPT ![d].pc = "done",
                            ![d].reply = Some(reply),
                            ![d].result = Some(content_request(reply))]
    /\ UNCHANGED <<client, wire>>

(* The provided request on a classification payload, up to the await. *)
ClassificationRequest(d, self) ==
    /\ call[d].pc = "idle"
    /\ LET rb == classifications_build_request(self, client)
       IN /\ call' = [call EXCEPT ![d] =
                        [pc |-> "awaiting", kind |-> "classifications",
                         payload |-> Some(self), request |-> Some(rb),
                         reply |-> None, result |-> None]]
          /\ wire' = Append(wire, [by |-> d, request |-> rb])
    /\ UNCHANGED client

(* The provided request on a classification payload, from the await on. *)
ClassificationResume(d, reply) ==
    /\ call[d].pc = "awaiting"
    /\ call[d].kind = "classifications"
    /\ call' = [call EXCEPT ![d].pc = "done",
                            ![d].reply = Some(reply),
                            ![d].result = Some(classifications_request(reply))]
    /\ UNCHANGED <<client, wire>>

-----------------------------------------------------------------------------
(* The three specifications. *)

UrlIdle == m_self = "Ada" /\ m_action = "" /\ m_url = None
DispatchIdle ==
    /\ client = [gpt_token |-> "sk-A", reqwest_client |-> ReqwestClient]
    /\ call = [d \in Dispatches |-> IdleCall]
    /\ wire = << >>

InitUrl == UrlInit /\ BuilderInit /\ DispatchIdle

NextUrl == Resolve /\ UNCHANGED <<builderVars, dispatchVars>>

SpecUrl == InitUrl /\ [][NextUrl]_vars

InitBuilder == UrlIdle /\ BuilderInit /\ DispatchIdle

NextBuilder ==
    \/ /\ \E f \in RequiredFields : \E v \in FieldValues(f) : SetRequired(f, v)
       /\ UNCHANGED <<urlVars, dispatchVars>>
    \/ /\ \E f \in OptionalFields : \E v \in FieldValues(f) : SetOptional(f, v)
       /\ UNCHANGED <<urlVars, dispatchVars>>
    \/ Build /\ UNCHANGED <<urlVars, dispatchVars>>
    \/ Dispatch /\ UNCHANGED <<urlVars, dispatchVars>>

SpecBuilder == InitBuilder /\ [][NextBuilder]_vars

InitDispatch == UrlIdle /\ BuilderInit /\ DispatchInit

NextDispatch ==
    \/ /\ \E d \in Dispatches : \E id \in FileIds : ContentRequest(d, id)
       /\ UNCHANGED <<urlVars, builderVars>>
    \/ /\ \E d \in Dispatches : \E reply \in Replies : ContentResume(d, reply)
       /\ UNCHANGED <<urlVars, builderVars>>
    \/ /\ \E d \in Dispatches : \E p \in ClassificationPayloads :
              ClassificationRequest(d, p)
       /\ UNCHANGED <<urlVars, builderVars>>
    \/ /\ \E d \in Dispatches : \E reply \in Replies :
              ClassificationResume(d, reply)
       /\ UNCHANGED <<urlVars, builderVars>>

SpecDispatch == InitDispatch /\ [][NextDispatch]_vars

-----------------------------------------------------------------------------
(* The model registry: properties of Model::url, under SpecUrl. *)

(* The engine identifier each model is documented to select. *)
EngineId(m) ==
    CASE m = "Ada" -> "text-ada-001"
      [] m = "Babbage" -> "text-babbage-001"
      [] m = "Curie" -> "text-curie-001"
      [] m = "Davinci" -> "text-davinci-002"

(* What Model::url puts between the base URL and the action. *)
Fragment(m) == Drop(Model_url(m, ""), Len(OPENAI_URL))

(* What Model::url puts after the engine identifier. *)
AfterEngineId(m, action) ==
    Drop(Model_url(m, action), Len(OPENAI_URL \o "/engines/" \o EngineId(m)))

(* Exactly one '/' stands between the engine identifier and the action. *)
WellJoined(m, action) ==
    LET rest == AfterEngineId(m, action) IN
    /\ Len(rest) >= 2
    /\ SubSeq(rest, 1, 1) = "/"
    /\ SubSeq(rest, 2, 2) # "/"

(* C3: for every model and action, Model::url(action) is the base URL,   *)
(* then the model's fixed fragment (which names the model's engine),     *)
(* then the action; no other model resolves to the same URL for that     *)
(* action, and the model's fragment neither equals nor is a prefix of    *)
(* another model's fragment.                                             *)
C3_UrlIsBaseFragmentAction ==
    m_url # None =>
        /\ m_url[1] = OPENAI_URL \o Fragment(m_self) \o m_action
        /\ IsPrefix("/engines/" \o EngineId(m_self), Fragment(m_self))
        /\ \A other \in Models \ {m_self} :
              /\ Model_url(other, m_action) # m_url[1]
              /\ ~IsPrefix(Fragment(m_self), Fragment(other))

C3_Witness ==
    m_url # None /\ m_self = "Davinci" /\ m_action = "/c"

(* C10: Model::url joins engine and action the same way for every model: *)
(* what follows the engine identifier is the same for all four models,   *)
(* so an action that is joined by exactly one '/' for one model is       *)
(* joined by exactly one '/' for every model.                            *)
C10_JoinIsUniform ==
    m_url # None =>
        \A other \in Models :
            /\ AfterEngineId(other, m_action) = AfterEngineId(m_self, m_action)
            /\ WellJoined(m_self, m_action) => WellJoined(other, m_action)

-----------------------------------------------------------------------------
(* The classification builder and payload, under SpecBuilder. *)

(* C1: build() with model or query never set is an UninitializedField    *)
(* error naming a required field that is missing, and nothing has been   *)
(* handed to the transport; with both set, build() succeeds whatever     *)
(* optional fields are set.                                              *)
C1_BuildChecksRequired ==
    outcome # None =>
        LET r == outcome[1]
            missing == {f \in RequiredFields : builder[f] = None}
        IN /\ missing # {} =>
                /\ ~r.ok
                /\ r.error.kind = "UninitializedField"
                /\ r.error.field \in missing
                /\ sent = 0
                /\ body = None
           /\ missing = {} => r.ok

C1_Witness ==
    /\ outcome # None
    /\ ~outcome[1].ok
    /\ builder["model"] # None
    /\ builder["query"] = None
    /\ builder["labels"] # None

(* C2: the keys of the serialized body are model and query plus exactly  *)
(* the optional fields the caller set; no value is null.                 *)
C2_BodyKeysAreSetFields ==
    body # None =>
        /\ DOMAIN body[1] =
              RequiredFields \cup {f \in OptionalFields : builder[f] # None}
        /\ \A k \in DOMAIN body[1] : body[1][k] # "null"

C2_Witness ==
    /\ body # None
    /\ builder["labels"] # None
    /\ builder["temperature"] # None
    /\ builder["user"] = None
    /\ builder["file"] = None

(* C7: a build() step leaves the builder's fields as they were, and a    *)
(* build() that follows a build() with no setter call in between returns *)
(* the same outcome.                                                     *)
C7_BuildIsIdempotent ==
    [][builds' = builds + 1 =>
          /\ builder' = builder
          /\ builds >= 1 => outcome' = outcome]_vars

C7_Witness ==
    /\ builds = 2
    /\ outcome # None
    /\ outcome[1].ok
    /\ builder["examples"] # None

(* C8: with model, query, examples and file all set build() succeeds and *)
(* keeps both, and the serialized body of that payload has the examples  *)
(* key and the file key.                                                 *)
C8_ExamplesAndFileTogether ==
    (\A f \in {"model", "query", "examples", "file"} : builder[f] # None) =>
        /\ outcome # None =>
              /\ outcome[1].ok
              /\ outcome[1].value["examples"] # None
              /\ outcome[1].value["file"] # None
        /\ body # None => {"examples", "file"} \subseteq DOMAIN body[1]

C8_Witness ==
    /\ body # None
    /\ builder["examples"] # None
    /\ builder["file"] # None
    /\ {"examples", "file"} \subseteq DOMAIN body[1]

-----------------------------------------------------------------------------
(* Dispatch through the client, under SpecDispatch. *)

Done(d) == call[d].pc = "done"
GotBody(d) == Done(d) /\ call[d].reply[1].ok
GotMalformed(d) == GotBody(d) /\ call[d].reply[1].body \in MalformedBodies

(* C4 as stated: every dispatch whose transport succeeded with a body    *)
(* that is malformed JSON ends in a deserialization error.               *)
C4_MalformedIsDecodeError ==
    \A d \in Dispatches :
        GotMalformed(d) =>
            /\ ~call[d].result[1].ok
            /\ call[d].result[1].error = DecodeError

(* C4 as amended: a classification dispatch whose transport succeeded    *)
(* with a body that is malformed JSON ends in a deserialization error,   *)
(* not a transport error and not a response; a file-content dispatch     *)
(* does not parse the body and ends in a response holding that body.     *)
C4_MalformedByKind ==
    \A d \in Dispatches :
        GotMalformed(d) =>
            /\ call[d].kind = "classifications" =>
                  /\ ~call[d].result[1].ok
                  /\ call[d].result[1].error = DecodeError
            /\ call[d].kind = "content" =>
                  /\ call[d].result[1].ok
                  /\ call[d].result[1].value.content = call[d].reply[1].body

C4_Witness ==
    \E d1, d2 \in Dispatches :
        /\ GotMalformed(d1) /\ call[d1].kind = "classifications"
        /\ GotMalformed(d2) /\ call[d2].kind = "content"
        /\ call[d2].reply[1].body = "{"

(* C5: a file-content dispatch has put exactly one request on the wire:  *)
(* a GET of base + "/files/" + file_id + "/content" with the file_id of  *)
(* its own payload, carrying the client's bearer credential.             *)
C5_ContentIsOneAuthenticatedGet ==
    \A d \in Dispatches :
        call[d].kind = "content" =>
            LET mine == {i \in 1..Len(wire) : wire[i].by = d} IN
            /\ Cardinality(mine) = 1
            /\ \A i \in mine :
                  /\ wire[i].request.method = "GET"
                  /\ wire[i].request.url =
                        OPENAI_URL \o "/files/"
                            \o call[d].payload[1].file_id \o "/content"
                  /\ wire[i].request.bearer = Some(client.gpt_token)

C5_Witness ==
    \E d1, d2 \in Dispatches :
        /\ d1 # d2
        /\ Done(d1) /\ call[d1].kind = "content"
        /\ call[d1].payload[1].file_id = "file-2"
        /\ call[d2].kind = "content"
        /\ call[d2].payload[1].file_id = "file-1"
        /\ wire[1].by = d2

(* C6: a finished file-content dispatch whose transport succeeded holds  *)
(* a response whose content is the whole body, unchanged; one whose      *)
(* transport failed holds that transport error and no response.          *)
C6_ContentIsWholeBody ==
    \A d \in Dispatches :
        Done(d) /\ call[d].kind = "content" =>
            LET reply == call[d].reply[1]
                result == call[d].result[1]
            IN /\ reply.ok => result.ok /\ result.value = [content |-> reply.body]
               /\ ~reply.ok =>
                     /\ ~result.ok
                     /\ result.error = TransportError(reply.error)

C6_Witness ==
    \E d1, d2 \in Dispatches :
        /\ Done(d1) /\ call[d1].kind = "content"
        /\ call[d1].reply[1] = [ok |-> TRUE, body |-> Quote("hello")]
        /\ Done(d2) /\ call[d2].kind = "content"
        /\ ~call[d2].reply[1].ok

(* C9: the client never changes, and what a dispatch sends and returns   *)
(* is decided by its own payload and its own reply: two dispatches of    *)
(* the same payload send the same request whatever was in flight when    *)
(* each started, two that also got the same reply return the same        *)
(* result, and each request on the wire is the one its dispatch built.   *)
C9_SameInputsSameOutputs ==
    /\ \A d1, d2 \in Dispatches :
          (/\ call[d1].pc # "idle"
           /\ call[d2].pc # "idle"
           /\ call[d1].kind = call[d2].kind
           /\ call[d1].payload = call[d2].payload) =>
              /\ call[d1].request = call[d2].request
              /\ (Done(d1) /\ Done(d2) /\ call[d1].reply = call[d2].reply) =>
                    call[d1].result = call[d2].result
    /\ \A i \in 1..Len(wire) : call[wire[i].by].request = Some(wire[i].request)

C9_DispatchesIndependent ==
    []C9_SameInputsSameOutputs /\ [][client' = client]_vars

C9_Witness ==
    /\ \A d \in Dispatches : Done(d)
    /\ call[1].kind = "content"
    /\ call[2].kind = "content"
    /\ call[1].payload = call[2].payload
    /\ call[1].reply = call[2].reply
    /\ wire[1].by = 2

====
